---- MODULE Spec2Model ----
(***************************************************************************)
(* Model of Reuters_multiclass_classification/model.py: the class Model,   *)
(* a wrapper that holds one Keras network (self.model), the History of the *)
(* last fit (self.train_history) and a fixed artifact directory            *)
(* (self.model_dir).  The Keras calls the wrapper makes (Model(), compile, *)
(* fit, evaluate, predict, save, load_model) are modelled by what they do  *)
(* to a network abstracted to its name, its parameters, its optimizer      *)
(* iteration count and its compiled metrics.                               *)
(***************************************************************************)
EXTENDS Naturals, Sequences, FiniteSets, TLC

VARIABLES
    model,          \* self.model: the network the wrapper holds
    train_history,  \* self.train_history: None or the History of the last fit
    disk,           \* the file system: path -> contents of the file at it
    uid,            \* Keras's counter of auto-named functional models
    metricKey,      \* the key the installed Keras reports "accuracy" under
    last            \* the last call of the wrapper: its arguments and outcome

vars == <<model, train_history, disk, uid, metricKey, last>>

----------------------------------------------------------------------------
(* Bounds of the model *)

\* number of distinct states (parameters and optimizer state) of a network
NumWeights == 2
\* largest epochs argument tried
MaxEpochs == 2
\* cap on the number of networks build() creates
MaxBuilds == 2
\* number of distinct data sets / input batches
NumData == 2

----------------------------------------------------------------------------
(* Values *)

\* Python's None, where the other values are records
None == [type |-> "None"]

\* Python's None, where the other values are strings (load_model_name=None)
NoName == "None"

Weights == 0 .. (NumWeights - 1)

\* the data sets: d names the train, the dev and the test split of data set
\* d, and the d-th prediction input
Datasets == 1 .. NumData

\* self.model_dir = os.path.join(os.path.dirname(__file__), "model/")
ModelDir == "model/"

\* the directories a caller passes to save and load: the wrapper's own
Dirs == {ModelDir}

\* the name Keras gives the n-th functional model created without a name
NetName(n) == "model_" \o ToString(n)

\* f_name = model.name + ".h5"
F_name(name) == name \o ".h5"

\* os.path.join(dir, f_name), for a dir ending in "/" and a relative name
Join(dir, f_name) == dir \o f_name

\* artifact names a caller passes to load: those save can write, and one
\* that no save writes
ArtifactNames == {F_name(NetName(n)) : n \in 1 .. MaxBuilds} \cup {"absent.h5"}

\* load_model_name of predict: None, the empty string, or an artifact name
PredictNames == {NoName, ""} \cup ArtifactNames

\* "if load_model_name:", Python truthiness of None and of a string
Truthy(name) == name # NoName /\ name # ""

\* the four keys plot_history reads
PlotKeys == {"loss", "val_loss", "acc", "val_acc"}

\* the names Keras releases report the metric "accuracy" under in a History
MetricKeys == {"acc", "accuracy"}

----------------------------------------------------------------------------
(* The Keras calls the wrapper makes *)

\* models.Model(inputs, outputs) and compile(..., metrics=["accuracy"]): the
\* n-th auto-named network, with freshly initialised parameters w
KerasModel(n, w) ==
    [name |-> NetName(n), weights |-> w, metrics |-> <<"accuracy">>]

\* one epoch of minibatch gradient descent on data d (one batch per epoch)
TrainStep(w, d) == (w + d) % NumWeights

\* the parameters after e epochs on data d
RECURSIVE FitWeights(_, _, _)
FitWeights(w, d, e) == IF e = 0 THEN w ELSE FitWeights(TrainStep(w, d), d, e - 1)

\* the loss and the accuracy of parameters w on data d, as abstract scalars
Loss(w, d) == (w + d) % NumWeights
Accuracy(w, d) == (w + d + 1) % NumWeights

\* FitHistory with a slip: the lists of this fit are appended to those of the
\* history already stored
FitHistoryMerged(net, train, dev, epochs) ==
    LET keys == IF epochs = 0 THEN {}
                ELSE {"loss", "val_loss", metricKey, "val_" \o metricKey}
        old == IF train_history = None THEN <<>> ELSE train_history.history
        all == keys \cup DOMAIN old
        new(k) == IF k \in keys THEN [i \in 1 .. epochs |-> i] ELSE <<>>
    IN  [type |-> "History",
         history |-> [k \in all |->
                        (IF k \in DOMAIN old THEN old[k] ELSE <<>>) \o new(k)],
         params |-> [epochs |-> epochs]]

\* the History callback of one fit: fit creates it anew, and the end of each
\* epoch appends that epoch's value to the list of each key it logs (so no
\* key exists before the first epoch ends).  The value of epoch i is
\* abstracted to i.
FitHistory(net, train, dev, epochs) ==
    LET keys == IF epochs = 0 THEN {}
                ELSE {"loss", "val_loss", metricKey, "val_" \o metricKey}
    IN  [type |-> "History",
         history |-> [k \in keys |-> [i \in 1 .. epochs |-> i]],
         params |-> [epochs |-> epochs]]

\* the network after model.fit(..., epochs=epochs): updated in place
FitNet(net, train, epochs) ==
    [net EXCEPT !.weights = FitWeights(@, train, epochs)]

\* model.evaluate(test_data, test_labels): [loss, acc] of one forward pass
KerasEvaluate(net, test) == <<Loss(net.weights, test), Accuracy(net.weights, test)>>

\* model.predict(input): the output probabilities, a function of parameters
\* and input only
Forward(net, input) == (net.weights + input) % NumWeights

\* model.save(path): the HDF5 artifact holds the topology, the parameters
\* with the optimizer state, and the compile arguments
Serialize(net) ==
    [model_config |-> [name |-> net.name],
     model_weights |-> net.weights,
     training_config |-> [metrics |-> net.metrics]]

\* models.load_model(path): a new network rebuilt from the artifact alone
Deserialize(file) ==
    [name |-> file.model_config.name,
     weights |-> file.model_weights,
     metrics |-> file.training_config.metrics]

\* the file system after writing contents c at path p
WriteFile(d, p, c) == [q \in (DOMAIN d) \cup {p} |-> IF q = p THEN c ELSE d[q]]

----------------------------------------------------------------------------
(* The wrapper *)

\* what a call hands back: the value it returns, or the exception it raises
Ret(v) == [value |-> v]
Raise(e) == [error |-> e]

\* the record of a call: op and arg are what was called, ok whether it
\* returned (FALSE: it raised), out what it returned or raised, printed what
\* it wrote to stdout, written the paths it wrote, after the call it follows:
\*   train    "train"   a history of an earlier train was stored
\*   load     "save"    the call before it was the save of the file it reads
\*   predict  "predict" / "predict with load"   the call before it was a
\*            predict on the same input that returned (and loaded an artifact)
Call(op, arg, ok, out, printed, written, after) ==
    [op |-> op, arg |-> arg, ok |-> ok, out |-> out, printed |-> printed,
     written |-> written, after |-> after]

\* Model.__init__: build, no history, the fixed directory; nothing on disk
Init ==
    /\ metricKey \in MetricKeys
    /\ uid = 1
    /\ \E w \in Weights : model = KerasModel(1, w)
    /\ train_history = None
    /\ disk = <<>>
    /\ last = Call("__init__", <<>>, TRUE, Ret(None), <<>>, {}, "")

\* Model.build
build ==
    /\ uid < MaxBuilds
    /\ uid' = uid + 1
    /\ \E w \in Weights : model' = KerasModel(uid + 1, w)
    /\ last' = Call("build", <<>>, TRUE, Ret(model'), <<>>, {}, "")
    /\ UNCHANGED <<train_history, disk, metricKey>>

\* SavePath with a slip: the extension is left out of the file name
SavePathNoExtension(m, dir) == Join(dir, m.name)

\* Model.save: the path it writes, and what it leaves on disk
SavePath(m, dir) == Join(dir, F_name(m.name))

save(m, dir) == WriteFile(disk, SavePath(m, dir), Serialize(m))

\* the message train prints before it returns
TrainedMsg == "Model trained successfully and saved in '/model'"

\* train with a slip: the artifact is written before the fit
trainSavesFirst(train_set, dev_set, epochs, save_model) ==
    LET fitted == FitNet(model, train_set, epochs)
        hist == FitHistory(model, train_set, dev_set, epochs)
    IN  /\ model' = fitted
        /\ train_history' = hist
        /\ disk' = IF save_model THEN save(model, ModelDir) ELSE disk
        /\ last' = Call("train", [epochs |-> epochs, save_model |-> save_model],
                        TRUE, Ret(<<hist.history, fitted>>), <<TrainedMsg>>,
                        IF save_model THEN {SavePath(model, ModelDir)} ELSE {},
                        IF train_history = None THEN "" ELSE "train")
        /\ UNCHANGED <<uid, metricKey>>

\* Model.train
train(train_set, dev_set, epochs, save_model) ==
    LET fitted == FitNet(model, train_set, epochs)
        hist == FitHistory(model, train_set, dev_set, epochs)
    IN  /\ model' = fitted
        /\ train_history' = hist
        /\ disk' = IF save_model THEN save(fitted, ModelDir) ELSE disk
        /\ last' = Call("train", [epochs |-> epochs, save_model |-> save_model],
                        TRUE, Ret(<<hist.history, fitted>>), <<TrainedMsg>>,
                        IF save_model THEN {SavePath(fitted, ModelDir)} ELSE {},
                        IF train_history = None THEN "" ELSE "train")
        /\ UNCHANGED <<uid, metricKey>>

\* evaluate with a slip: the test split is fitted for one epoch
evaluateFits(test_set) ==
    /\ model' = FitNet(model, test_set, 1)
    /\ last' = Call("evaluate", test_set, TRUE, Ret(KerasEvaluate(model', test_set)),
                    <<>>, {}, "")
    /\ UNCHANGED <<train_history, disk, uid, metricKey>>

\* Model.evaluate
evaluate(test_set) ==
    /\ last' = Call("evaluate", test_set, TRUE, Ret(KerasEvaluate(model, test_set)),
                    <<>>, {}, "")
    /\ UNCHANGED <<model, train_history, disk, uid, metricKey>>

\* Model.save, called by the wrapper's user with the held network
Save(dir) ==
    /\ disk' = save(model, dir)
    /\ last' = Call("save", [model |-> model, dir |-> dir], TRUE, Ret(None), <<>>,
                    {SavePath(model, dir)}, "")
    /\ UNCHANGED <<model, train_history, uid, metricKey>>

\* load with a slip: the network read is returned and not assigned to
\* self.model
loadNotAssigned(dir, model_name) ==
    [raised |-> Join(dir, model_name) \notin DOMAIN disk, model |-> model]

\* load with a slip: a missing file is caught and a fresh network is held
loadFallsBack(dir, model_name) ==
    LET model_path == Join(dir, model_name)
    IN  IF model_path \in DOMAIN disk
        THEN [raised |-> FALSE, model |-> Deserialize(disk[model_path])]
        ELSE [raised |-> TRUE, model |-> KerasModel(uid, 0)]

\* Model.load: raised when load_model finds no file at the path, and then
\* self.model is not assigned; else self.model is the network read
load(dir, model_name) ==
    LET model_path == Join(dir, model_name)
    IN  IF model_path \in DOMAIN disk
        THEN [raised |-> FALSE, model |-> Deserialize(disk[model_path])]
        ELSE [raised |-> TRUE, model |-> model]

\* Model.load, called by the wrapper's user
Load(dir, model_name) ==
    LET l == load(dir, model_name)
    IN  /\ model' = l.model
        /\ last' = Call("load", [dir |-> dir, model_name |-> model_name],
                        ~l.raised,
                        IF l.raised THEN Raise("OSError") ELSE Ret(l.model),
                        <<>>, {},
                        IF last.op = "save" /\ Join(dir, model_name) \in last.written
                        THEN "save" ELSE "")
        /\ UNCHANGED <<train_history, disk, uid, metricKey>>

\* predict with a slip: the input is fitted for one epoch before the forward
\* pass
predictFits(input, load_model_name) ==
    LET l == IF Truthy(load_model_name) THEN load(ModelDir, load_model_name)
             ELSE [raised |-> FALSE, model |-> model]
        after == IF l.raised THEN l.model ELSE FitNet(l.model, input, 1)
        arg == [input |-> input, load_model_name |-> load_model_name]
        out == IF l.raised THEN Raise("OSError") ELSE Ret(Forward(after, input))
        follows == last.op = "predict" /\ last.ok /\ last.arg.input = input
    IN  /\ model' = after
        /\ last' = Call("predict", arg, ~l.raised, out, <<>>, {},
                        IF ~follows THEN ""
                        ELSE IF Truthy(last.arg.load_model_name)
                             THEN "predict with load" ELSE "predict")
        /\ UNCHANGED <<train_history, disk, uid, metricKey>>

\* Model.predict
predict(input, load_model_name) ==
    LET l == IF Truthy(load_model_name) THEN load(ModelDir, load_model_name)
             ELSE [raised |-> FALSE, model |-> model]
        arg == [input |-> input, load_model_name |-> load_model_name]
        out == IF l.raised THEN Raise("OSError") ELSE Ret(Forward(l.model, input))
        follows == last.op = "predict" /\ last.ok /\ last.arg.input = input
    IN  /\ model' = l.model
        /\ last' = Call("predict", arg, ~l.raised, out, <<>>, {},
                        IF ~follows THEN ""
                        ELSE IF Truthy(last.arg.load_model_name)
                             THEN "predict with load" ELSE "predict")
        /\ UNCHANGED <<train_history, disk, uid, metricKey>>

\* the keys of plot_history in the order it reads them
PlotKeyOrder == <<"loss", "val_loss", "acc", "val_acc">>

\* plot_history with a slip: the accuracy lists are read with a default
plot_historyDefaults(keys) ==
    IF "loss" \notin keys THEN [raised |-> TRUE, out |-> Raise(<<"KeyError", "loss">>)]
    ELSE IF "val_loss" \notin keys
         THEN [raised |-> TRUE, out |-> Raise(<<"KeyError", "val_loss">>)]
         ELSE [raised |-> FALSE, out |-> Ret("shown")]

\* Model.plot_history on a mapping with the given keys: the KeyError of the
\* first key it reads and does not find, else the figure shown
plot_history(keys) ==
    LET absent == {i \in 1 .. Len(PlotKeyOrder) : PlotKeyOrder[i] \notin keys}
        first == CHOOSE i \in absent : \A j \in absent : i <= j
    IN  IF absent = {}
        THEN [raised |-> FALSE, out |-> Ret("shown")]
        ELSE [raised |-> TRUE, out |-> Raise(<<"KeyError", PlotKeyOrder[first]>>)]

\* the key sets of the mappings a caller passes to plot_history: the history
\* train returned, or a mapping with some of the four keys
HistoryKeySets ==
    (SUBSET PlotKeys) \cup
    (IF train_history = None THEN {} ELSE {DOMAIN train_history.history})

PlotHistory(keys) ==
    LET p == plot_history(keys)
    IN  /\ last' = Call("plot_history", keys, ~p.raised, p.out, <<>>, {}, "")
        /\ UNCHANGED <<model, train_history, disk, uid, metricKey>>

Next ==
    \/ build
    \/ \E d \in Datasets, e \in 0 .. MaxEpochs, s \in BOOLEAN :
          train(d, d, e, s)
    \/ \E t \in Datasets : evaluate(t)
    \/ \E dir \in Dirs : Save(dir)
    \/ \E dir \in Dirs, n \in ArtifactNames : Load(dir, n)
    \/ \E i \in Datasets, n \in PredictNames : predict(i, n)
    \/ \E k \in HistoryKeySets : PlotHistory(k)

Spec == Init /\ [][Next]_vars

----------------------------------------------------------------------------
(* The claims *)

\* the path of the artifact a call names
LoadPath == Join(last.arg.dir, last.arg.model_name)
PredictPath == Join(ModelDir, last.arg.load_model_name)

\* C1: a save of a network followed at once by the load of
\* <its name>.h5 from the same directory succeeds and leaves the wrapper
\* holding a network that predicts, on every input, what the saved network
\* predicted before the save.
RoundTripPredictions ==
    [][(/\ last.op = "save"
        /\ last'.op = "load"
        /\ last'.arg.dir = last.arg.dir
        /\ last'.arg.model_name = F_name(last.arg.model.name))
       => (/\ last'.ok
           /\ \A x \in Datasets : Forward(model', x) = Forward(last.arg.model, x))]_vars

\* a trained network was saved and loaded back
RoundTripDone ==
    /\ last.op = "load"
    /\ last.after = "save"
    /\ last.ok
    /\ train_history # None
    /\ train_history.params.epochs >= 1

\* C2: after a load that returned, and after a predict with an artifact name
\* that returned, the held network is the network stored in that artifact
\* and nothing else.
LoadReplacesHeld ==
    /\ (last.op = "load" /\ last.ok) => model = Deserialize(disk[LoadPath])
    /\ (last.op = "predict" /\ last.ok /\ last.arg.load_model_name \in ArtifactNames)
          => model = Deserialize(disk[PredictPath])

\* a load put the first network back in place of the second one built
LoadReplacedOther ==
    /\ last.op = "load"
    /\ last.ok
    /\ uid > 1
    /\ model.name = NetName(1)
    /\ train_history # None

\* C3: every list of the history train returns has as many values as the
\* epochs argument, and the stored history is that of the most recent
\* train call alone.
HistoryOfLastTrain ==
    /\ train_history # None =>
          \A k \in DOMAIN train_history.history :
             Len(train_history.history[k]) = train_history.params.epochs
    /\ last.op = "train" =>
          /\ last.ok
          /\ train_history # None
          /\ train_history.params.epochs = last.arg.epochs
          /\ train_history.history = last.out.value[1]
          /\ last.arg.epochs >= 1 => DOMAIN last.out.value[1] # {}
          /\ \A k \in DOMAIN last.out.value[1] :
                last.out.value[1][k] = [i \in 1 .. last.arg.epochs |-> i]

\* a network trained before was trained again, for one epoch
Retrained ==
    /\ last.op = "train"
    /\ last.after = "train"
    /\ last.arg.epochs = 1

\* C4: a train call with save_model writes exactly <model_dir>/<name>.h5,
\* holding the network as it is after the fit; one without save_model
\* leaves every file as it was.
TrainSavesIffAsked ==
    [][last'.op = "train" =>
          IF last'.arg.save_model
          THEN disk' = WriteFile(disk, Join(ModelDir, F_name(model'.name)),
                                 Serialize(model'))
          ELSE disk' = disk]_vars

\* a train call that changed the parameters saved them over an older artifact
TrainedAndSaved ==
    /\ last.op = "train"
    /\ last.arg.save_model
    /\ last.arg.epochs >= 1
    /\ last.after = "train"
    /\ Join(ModelDir, F_name(model.name)) \in DOMAIN disk

\* C5: evaluate returns and changes neither the held network, nor the stored
\* history, nor any file.
EvaluateChangesNothing ==
    [][last'.op = "evaluate" =>
          (last'.ok /\ UNCHANGED <<model, train_history, disk>>)]_vars

\* a trained network with artifacts on disk was evaluated
EvaluatedTrained ==
    /\ last.op = "evaluate"
    /\ train_history # None
    /\ DOMAIN disk # {}

\* C6: a predict call without an artifact name that follows a predict call
\* on the same input returns the same output, and changes neither the held
\* network, nor the stored history, nor any file.
PredictRepeats ==
    [][(/\ last.op = "predict"
        /\ last.ok
        /\ last'.op = "predict"
        /\ last'.arg.load_model_name = NoName
        /\ last'.arg.input = last.arg.input)
       => (/\ last'.ok
           /\ last'.out = last.out
           /\ UNCHANGED <<model, train_history, disk>>)]_vars

\* a predict without a name followed a predict that loaded an artifact
PredictedAgainAfterLoad ==
    /\ last.op = "predict"
    /\ last.arg.load_model_name = NoName
    /\ last.after = "predict with load"
    /\ last.ok

\* C7: plot_history on a mapping that lacks any of its four keys raises and
\* shows no chart.
PlotNeedsFourKeys ==
    (last.op = "plot_history" /\ PlotKeys \ last.arg # {})
        => (~last.ok /\ DOMAIN last.out = {"error"})

\* plot_history was called with the two validation keys missing
PlotLackedKeys ==
    /\ last.op = "plot_history"
    /\ last.arg = {"loss", "acc"}
    /\ ~last.ok

\* C8: a load, or a predict with an artifact name, of a file that does not
\* exist raises, returns nothing, and leaves the held network as it was.
MissingArtifactRaises ==
    [][(\/ /\ last'.op = "load"
           /\ Join(last'.arg.dir, last'.arg.model_name) \notin DOMAIN disk
        \/ /\ last'.op = "predict"
           /\ last'.arg.load_model_name \in ArtifactNames
           /\ Join(ModelDir, last'.arg.load_model_name) \notin DOMAIN disk)
       => (/\ ~last'.ok
           /\ last'.out = Raise("OSError")
           /\ UNCHANGED <<model, train_history, disk>>)]_vars

\* a predict named a missing artifact while a trained network was held
PredictMissedArtifact ==
    /\ last.op = "predict"
    /\ ~last.ok
    /\ train_history # None
    /\ train_history.params.epochs >= 1

\* C9: whenever train has printed its completion message, that train call
\* wrote the trained network to the model directory.
MessageMeansSaved ==
    (last.op = "train" /\ \E i \in DOMAIN last.printed : last.printed[i] = TrainedMsg)
        => SavePath(model, ModelDir) \in last.written

\* C10: the history a train call returns has the four keys plot_history
\* reads.
TrainHistoryHasPlotKeys ==
    (last.op = "train" /\ last.ok) => PlotKeys \subseteq DOMAIN last.out.value[1]

====
